---- MODULE Spec2Model ----
(***************************************************************************)
(* Model of manage_pg_server.c: the Postgres server-side SQL functions of  *)
(* the GVM management layer (sql_hosts_contains, sql_next_time_ical,       *)
(* sql_max_hosts, sql_severity_matches_ov, sql_regexp) together with the   *)
(* helpers textndup and get_max_hosts.                                     *)
(*                                                                         *)
(* A text is the sequence of its payload bytes (one-character strings).    *)
(* A Datum argument is a record [null, v]; a float8 severity is modelled   *)
(* by an integer (every comparison the code makes is exact on integers).   *)
(* PG_RETURN_BOOL (0) / (1) are the integers 0 and 1.                      *)
(***************************************************************************)
EXTENDS Integers, Sequences, FiniteSets, TLC

VARIABLES
  meta,     \* the row name = 'max_hosts' of table meta: [row, null, value]
  fn,       \* the entry point of the last call ("none" before any call)
  nargs,    \* PG_NARGS () of the last call
  args,     \* the arguments of the last call, a tuple of [null, v]
  ret,      \* the Datum returned by the last call: [null, v]
  calls,    \* calls the last call made out of this file: <<[f, a]>>
  getargs,  \* indexes of the arguments fetched by PG_GETARG_* in the last call
  events,   \* allocation and SPI events of the last call, in order
  mem       \* [out, spi, spiBufs, bad]: buffers outstanding, SPI connections
            \* open, buffers of the SPI context, a pfree of a dead buffer seen

vars == <<meta, fn, nargs, args, ret, calls, getargs, events, mem>>

----------------------------------------------------------------------------
(* Bounds of the model. *)

MaxLen == 2        \* longest host / regexp text argument
MaxCellLen == 2    \* longest configured max_hosts text
MaxIcalLen == 1    \* longest recurrence text
MaxSeverity == 5   \* severities range over -MaxSeverity..MaxSeverity
MaxOffset == 1     \* periods_offset ranges over 0..MaxOffset
MaxLife == 1       \* longest text, largest number of the lifecycle specification

HostChars == {"a", ","}
MetaChars == {"7", "-", "x"}
LifeChars == {"a"}
IcalChars == {"D", "W"}
ZoneChars == {"U"}

Texts(A, n) == UNION {[1..k -> A] : k \in 0..n}

Datum(null, v) == [null |-> null, v |-> v]
TextArgs(A, n) == {Datum(TRUE, <<>>)} \cup {Datum(FALSE, t) : t \in Texts(A, n)}
IntArgs(S) == {Datum(TRUE, 0)} \cup {Datum(FALSE, i) : i \in S}

Severities == (0 - MaxSeverity)..MaxSeverity
Offsets == 0..MaxOffset

MetaValues ==
  {[row |-> FALSE, null |-> FALSE, value |-> <<>>],
   [row |-> TRUE, null |-> TRUE, value |-> <<>>]}
  \cup {[row |-> TRUE, null |-> FALSE, value |-> t] : t \in Texts(MetaChars, MaxCellLen)}

----------------------------------------------------------------------------
(* Memory and SPI bookkeeping: the effect of one call's events on mem.     *)
(* live is the set of buffers the call's local pointers own.               *)

RECURSIVE RunEvents(_, _, _)
RunEvents(m, live, evs) ==
  IF evs = <<>> THEN m
  ELSE LET e == Head(evs)
           rest == Tail(evs)
       IN CASE e[1] = "palloc" ->
                 RunEvents([m EXCEPT !.out = @ + 1], live \cup {e[2]}, rest)
            [] e[1] = "pfree" ->
                 IF e[2] \in live
                 THEN RunEvents([m EXCEPT !.out = @ - 1], live \ {e[2]}, rest)
                 ELSE RunEvents([m EXCEPT !.bad = TRUE], live, rest)
            [] e[1] = "SPI_connect" ->
                 RunEvents([m EXCEPT !.spi = @ + 1], live, rest)
            [] e[1] = "SPI_getvalue" ->
                 RunEvents([m EXCEPT !.spiBufs = @ + 1], live, rest)
            [] e[1] = "SPI_finish" ->
                 RunEvents([m EXCEPT !.spi = @ - 1, !.spiBufs = 0], live, rest)

Palloc(name) == <<"palloc", name>>
Pfree(name) == <<"pfree", name>>

(* textndup that copies one byte too few. *)
textndup_short(text_arg, length) == SubSeq(text_arg, 1, length - 1)

(* textndup: length bytes of the text, then a terminating 0. *)
textndup(text_arg, length) == SubSeq(text_arg, 1, length)

(* VARSIZE (x) - VARHDRSZ: the payload length of a text. *)
VarDataLen(text_arg) == Len(text_arg)

----------------------------------------------------------------------------
(* get_max_hosts *)

MANAGE_MAX_HOSTS == 4095

Digits == <<"0", "1", "2", "3", "4", "5", "6", "7", "8", "9">>
IsDigit(c) == \E i \in 1..Len(Digits) : Digits[i] = c
DigitVal(c) == (CHOOSE i \in 1..Len(Digits) : Digits[i] = c) - 1
IsSpace(c) == c \in {" ", "\t", "\n"}

RECURSIVE atoi_skip(_, _)
atoi_skip(s, i) ==
  IF i <= Len(s) /\ IsSpace(s[i]) THEN atoi_skip(s, i + 1) ELSE i

RECURSIVE atoi_digits(_, _, _)
atoi_digits(s, i, acc) ==
  IF i <= Len(s) /\ IsDigit(s[i])
  THEN atoi_digits(s, i + 1, acc * 10 + DigitVal(s[i]))
  ELSE acc

(* atoi: leading white space, an optional sign, then the leading digits;   *)
(* 0 when there are none.                                                  *)
atoi(s) ==
  LET i == atoi_skip(s, 1)
  IN IF i <= Len(s) /\ s[i] = "-" THEN 0 - atoi_digits(s, i + 1, 0)
     ELSE IF i <= Len(s) /\ s[i] = "+" THEN atoi_digits(s, i + 1, 0)
     ELSE atoi_digits(s, i, 0)

(* SELECT coalesce ((SELECT value FROM meta WHERE name = 'max_hosts'),     *)
(* '4095'): always one row, whose cell is the configured text, or '4095'   *)
(* when the row is missing or its value is NULL.                           *)
SPI_exec(m) ==
  [ok |-> TRUE,
   processed |-> 1,
   cell |-> IF m.row /\ ~m.null
            THEN Datum(FALSE, m.value)
            ELSE Datum(FALSE, <<"4", "0", "9", "5">>)]

get_max_hosts(m) ==
  LET r == SPI_exec(m)
      fetched == r.processed > 0 /\ r.ok
  IN [max_hosts |-> IF fetched /\ ~r.cell.null
                    THEN atoi(r.cell.v)
                    ELSE MANAGE_MAX_HOSTS,
      events |-> <<(<<"SPI_connect", "">>)>>
                 \o (IF fetched THEN <<(<<"SPI_getvalue", "cell">>)>> ELSE <<>>)
                 \o <<(<<"SPI_finish", "">>)>>]

----------------------------------------------------------------------------
(* The functions called out of this file. *)

Min(x, y) == IF x <= y THEN x ELSE y

(* The comma separated atoms of a host expression, empty ones dropped. *)
RECURSIVE HostAtomsFrom(_, _, _)
HostAtomsFrom(s, i, cur) ==
  IF i > Len(s) THEN (IF cur = <<>> THEN {} ELSE {cur})
  ELSE IF s[i] = ","
  THEN (IF cur = <<>> THEN {} ELSE {cur}) \cup HostAtomsFrom(s, i + 1, <<>>)
  ELSE HostAtomsFrom(s, i + 1, Append(cur, s[i]))

HostAtoms(s) == HostAtomsFrom(s, 1, <<>>)

(* contains (expression, candidate, maxHosts): exact, independent of cap. *)
hosts_str_contains(hosts, find_host, max_hosts) ==
  find_host \in HostAtoms(hosts)

(* count (expression, exclude, maxHosts): distinct hosts of expression not *)
(* in exclude, capped; a negative cap is a contract violation (-1).        *)
manage_count_hosts_max(hosts, exclude, max_hosts) ==
  IF max_hosts < 0 THEN 0 - 1
  ELSE Min(max_hosts, Cardinality(HostAtoms(hosts) \ HostAtoms(exclude)))

(* The instant of reference ("now"), in days since the start instant. *)
ReferenceNow == 10

IcalPeriod(c) == IF c = "D" THEN 1 ELSE 7

IcalFirstAfter(p) == ((ReferenceNow \div p) + 1) * p

(* nextOccurrence: the earliest occurrence after now over the components,  *)
(* advanced by periodsOffset periods of that component; 0 when there is    *)
(* no component.                                                           *)
icalendar_next_time_from_string(ical_string, zone, periods_offset) ==
  IF ical_string = <<>> THEN 0
  ELSE LET comps == {ical_string[i] : i \in 1..Len(ical_string)}
           win == CHOOSE c \in comps :
                    \A d \in comps :
                      IcalFirstAfter(IcalPeriod(c)) <= IcalFirstAfter(IcalPeriod(d))
       IN IcalFirstAfter(IcalPeriod(win)) + periods_offset * IcalPeriod(win)

(* g_regex_match_simple on a pattern of literal characters: the pattern    *)
(* occurs somewhere in the string.                                         *)
g_regex_match_simple(regexp, string) ==
  \E i \in 0..(Len(string) - Len(regexp)) :
    SubSeq(string, i + 1, i + Len(regexp)) = regexp

Call(f, a) == [f |-> f, a |-> a]

----------------------------------------------------------------------------
(* sql_hosts_contains *)

hosts_contains(a, m) ==
  IF a[1].null \/ a[2].null
  THEN [ret |-> Datum(FALSE, 0), calls |-> <<>>, getargs |-> {}, events |-> <<>>]
  ELSE LET hosts == textndup(a[1].v, VarDataLen(a[1].v))
           find_host == textndup(a[2].v, VarDataLen(a[2].v))
           mh == get_max_hosts(m)
       IN [ret |-> Datum(FALSE,
                         IF hosts_str_contains(hosts, find_host, mh.max_hosts)
                         THEN 1 ELSE 0),
           calls |-> <<Call("hosts_str_contains",
                            <<hosts, find_host, mh.max_hosts>>)>>,
           getargs |-> {0, 1},
           events |-> <<Palloc("hosts"), Palloc("find_host")>>
                      \o mh.events
                      \o <<Pfree("hosts"), Pfree("find_host")>>]

sql_hosts_contains(a0, a1) ==
  LET a == <<a0, a1>> IN
  \E r \in {hosts_contains(a, meta)} :
     /\ fn' = "sql_hosts_contains"
     /\ nargs' = 2
     /\ args' = a
     /\ ret' = r.ret
     /\ calls' = r.calls
     /\ getargs' = r.getargs
     /\ events' = r.events
     /\ mem' = RunEvents(mem, {}, r.events)
     /\ UNCHANGED meta

----------------------------------------------------------------------------
(* sql_next_time_ical *)

(* The first test without its PG_ARGISNULL (0). *)
next_time_ical_arg0_nargs_only(a, n) == n < 1

next_time_ical_arg0_absent(a, n) == n < 1 \/ a[1].null

next_time_ical_arg1_absent(a, n) == n < 2 \/ a[2].null

(* PG_GETARG_INT32 (2), fetched without a look at PG_NARGS () or           *)
(* PG_ARGISNULL (2): the supplied integer, or, when there is no such       *)
(* argument or it is null, whatever the slot holds (garbage).              *)
next_time_ical_periods_offset(a, n, garbage) ==
  IF n >= 3 /\ ~a[3].null THEN a[3].v ELSE garbage

(* The frees without pfree (zone). *)
next_time_ical_frees_leak(ical_string_set, zone_set) ==
  IF ical_string_set THEN <<Pfree("ical_string")>> ELSE <<>>

next_time_ical_frees(ical_string_set, zone_set) ==
  (IF ical_string_set THEN <<Pfree("ical_string")>> ELSE <<>>)
  \o (IF zone_set THEN <<Pfree("zone")>> ELSE <<>>)

next_time_ical(a, n, garbage) ==
  IF next_time_ical_arg0_absent(a, n)
  THEN [ret |-> Datum(TRUE, 0), calls |-> <<>>, getargs |-> {}, events |-> <<>>]
  ELSE LET ical_string == textndup(a[1].v, VarDataLen(a[1].v))
           zone_set == ~next_time_ical_arg1_absent(a, n)
           zone == IF zone_set
                   THEN Datum(FALSE, textndup(a[2].v, VarDataLen(a[2].v)))
                   ELSE Datum(TRUE, <<>>)
           periods_offset == next_time_ical_periods_offset(a, n, garbage)
       IN [ret |-> Datum(FALSE,
                         icalendar_next_time_from_string(ical_string, zone.v,
                                                         periods_offset)),
           calls |-> <<Call("icalendar_next_time_from_string",
                            <<ical_string, zone, periods_offset>>)>>,
           getargs |-> {0, 2} \cup (IF zone_set THEN {1} ELSE {}),
           events |-> <<Palloc("ical_string")>>
                      \o (IF zone_set THEN <<Palloc("zone")>> ELSE <<>>)
                      \o next_time_ical_frees(TRUE, zone_set)]

sql_next_time_ical(a, garbage) ==
  \E r \in {next_time_ical(a, Len(a), garbage)} :
     /\ fn' = "sql_next_time_ical"
     /\ nargs' = Len(a)
     /\ args' = a
     /\ ret' = r.ret
     /\ calls' = r.calls
     /\ getargs' = r.getargs
     /\ events' = r.events
     /\ mem' = RunEvents(mem, {}, r.events)
     /\ UNCHANGED meta

----------------------------------------------------------------------------
(* sql_max_hosts *)

(* The exclude string with exclude[0] left as palloc returned it. *)
max_hosts_exclude_unset(a) ==
  IF a[2].null THEN <<"a">> ELSE textndup(a[2].v, VarDataLen(a[2].v))

(* The exclude string: a fresh empty string for a null argument. *)
max_hosts_exclude(a) ==
  IF a[2].null THEN <<>> ELSE textndup(a[2].v, VarDataLen(a[2].v))

max_hosts(a, m) ==
  IF a[1].null
  THEN [ret |-> Datum(FALSE, 0), calls |-> <<>>, getargs |-> {}, events |-> <<>>]
  ELSE LET hosts == textndup(a[1].v, VarDataLen(a[1].v))
           exclude == max_hosts_exclude(a)
           mh == get_max_hosts(m)
       IN [ret |-> Datum(FALSE,
                         manage_count_hosts_max(hosts, exclude, mh.max_hosts)),
           calls |-> <<Call("manage_count_hosts_max",
                            <<hosts, exclude, mh.max_hosts>>)>>,
           getargs |-> {0} \cup (IF a[2].null THEN {} ELSE {1}),
           events |-> <<Palloc("hosts"), Palloc("exclude")>>
                      \o mh.events
                      \o <<Pfree("hosts"), Pfree("exclude")>>]

sql_max_hosts(a0, a1) ==
  LET a == <<a0, a1>> IN
  \E r \in {max_hosts(a, meta)} :
     /\ fn' = "sql_max_hosts"
     /\ nargs' = 2
     /\ args' = a
     /\ ret' = r.ret
     /\ calls' = r.calls
     /\ getargs' = r.getargs
     /\ events' = r.events
     /\ mem' = RunEvents(mem, {}, r.events)
     /\ UNCHANGED meta

----------------------------------------------------------------------------
(* sql_severity_matches_ov *)

(* The comparison with arg_one < 0 as its test. *)
severity_compare_lt(arg_one, arg_two) ==
  IF arg_one < 0
  THEN (IF arg_one = arg_two THEN 1 ELSE 0)
  ELSE (IF arg_one >= arg_two THEN 1 ELSE 0)

(* The comparison with arg_one > arg_two in its second branch. *)
severity_compare_gt(arg_one, arg_two) ==
  IF arg_one <= 0
  THEN (IF arg_one = arg_two THEN 1 ELSE 0)
  ELSE (IF arg_one > arg_two THEN 1 ELSE 0)

severity_compare(arg_one, arg_two) ==
  IF arg_one <= 0
  THEN (IF arg_one = arg_two THEN 1 ELSE 0)
  ELSE (IF arg_one >= arg_two THEN 1 ELSE 0)

(* The null tests in the other order. *)
severity_matches_ov_swapped(a) ==
  IF a[2].null
  THEN [ret |-> Datum(FALSE, 1), getargs |-> {}]
  ELSE IF a[1].null
  THEN [ret |-> Datum(FALSE, 0), getargs |-> {}]
  ELSE [ret |-> Datum(FALSE, severity_compare(a[1].v, a[2].v)),
        getargs |-> {0, 1}]

severity_matches_ov(a) ==
  IF a[1].null
  THEN [ret |-> Datum(FALSE, 0), getargs |-> {}]
  ELSE IF a[2].null
  THEN [ret |-> Datum(FALSE, 1), getargs |-> {}]
  ELSE [ret |-> Datum(FALSE, severity_compare(a[1].v, a[2].v)),
        getargs |-> {0, 1}]

sql_severity_matches_ov(a0, a1) ==
  LET a == <<a0, a1>> IN
  \E r \in {severity_matches_ov(a)} :
     /\ fn' = "sql_severity_matches_ov"
     /\ nargs' = 2
     /\ args' = a
     /\ ret' = r.ret
     /\ calls' = <<>>
     /\ getargs' = r.getargs
     /\ events' = <<>>
     /\ mem' = RunEvents(mem, {}, <<>>)
     /\ UNCHANGED meta

----------------------------------------------------------------------------
(* sql_regexp *)

regexp_match(a) ==
  IF a[1].null \/ a[2].null
  THEN [ret |-> Datum(FALSE, 0), calls |-> <<>>, getargs |-> {}, events |-> <<>>]
  ELSE LET regexp == textndup(a[2].v, VarDataLen(a[2].v))
           string == textndup(a[1].v, VarDataLen(a[1].v))
       IN [ret |-> Datum(FALSE,
                         IF g_regex_match_simple(regexp, string) THEN 1 ELSE 0),
           calls |-> <<Call("g_regex_match_simple", <<regexp, string>>)>>,
           getargs |-> {0, 1},
           events |-> <<Palloc("regexp"), Palloc("string"),
                        Pfree("string"), Pfree("regexp")>>]

sql_regexp(a0, a1) ==
  LET a == <<a0, a1>> IN
  \E r \in {regexp_match(a)} :
     /\ fn' = "sql_regexp"
     /\ nargs' = 2
     /\ args' = a
     /\ ret' = r.ret
     /\ calls' = r.calls
     /\ getargs' = r.getargs
     /\ events' = r.events
     /\ mem' = RunEvents(mem, {}, r.events)
     /\ UNCHANGED meta

----------------------------------------------------------------------------
(* Specifications. *)

Init ==
  /\ meta \in MetaValues
  /\ fn = "none"
  /\ nargs = 0
  /\ args = <<>>
  /\ ret = Datum(TRUE, 0)
  /\ calls = <<>>
  /\ getargs = {}
  /\ events = <<>>
  /\ mem = [out |-> 0, spi |-> 0, spiBufs |-> 0, bad |-> FALSE]

HostArgs == TextArgs(HostChars, MaxLen)
IcalArgs == TextArgs(IcalChars, MaxIcalLen)
ZoneArgs == TextArgs(ZoneChars, 1)
OffsetArgs == IntArgs(Offsets)
SeverityArgs == IntArgs(Severities)

(* The argument lists of sql_next_time_ical: zero to three arguments. *)
ArgLists(A0, A1, A2) ==
  {<<>>}
  \cup {<<a0>> : a0 \in A0}
  \cup {<<a0, a1>> : a0 \in A0, a1 \in A1}
  \cup {<<a0, a1, a2>> : a0 \in A0, a1 \in A1, a2 \in A2}

IcalArgLists == ArgLists(IcalArgs, ZoneArgs, OffsetArgs)

(* What the slot of argument 2 can hold when the caller did not set it. *)
Garbage(a) == IF Len(a) >= 3 /\ ~a[3].null THEN {0} ELSE Offsets

CallHostsContains == \E a0, a1 \in HostArgs : sql_hosts_contains(a0, a1)
CallMaxHosts == \E a0, a1 \in HostArgs : sql_max_hosts(a0, a1)
CallNextTimeIcal ==
  \E a \in IcalArgLists : \E garbage \in Garbage(a) : sql_next_time_ical(a, garbage)
CallSeverity == \E a0, a1 \in SeverityArgs : sql_severity_matches_ov(a0, a1)

NextSeverity == CallSeverity
SpecSeverity == Init /\ [][NextSeverity]_vars

NextContains == CallHostsContains
SpecContains == Init /\ [][NextContains]_vars

NextCount == CallMaxHosts
SpecCount == Init /\ [][NextCount]_vars

NextHosts == CallHostsContains \/ CallMaxHosts
SpecHosts == Init /\ [][NextHosts]_vars

NextIcal == CallNextTimeIcal
SpecIcal == Init /\ [][NextIcal]_vars

(* Any sequence of calls of the five entry points. *)
LifeTextArgs == TextArgs(LifeChars, MaxLife)
LifeIntArgs == IntArgs(0..MaxLife)
LifeIcalArgLists ==
  ArgLists(TextArgs({"D"}, MaxLife), TextArgs(ZoneChars, MaxLife), LifeIntArgs)

LifeHostsContains == \E a0, a1 \in LifeTextArgs : sql_hosts_contains(a0, a1)
LifeMaxHosts == \E a0, a1 \in LifeTextArgs : sql_max_hosts(a0, a1)
LifeNextTimeIcal ==
  \E a \in LifeIcalArgLists : \E garbage \in Garbage(a) : sql_next_time_ical(a, garbage)
LifeSeverity == \E a0, a1 \in LifeIntArgs : sql_severity_matches_ov(a0, a1)
LifeRegexp == \E a0, a1 \in LifeTextArgs : sql_regexp(a0, a1)

Next ==
  \/ LifeHostsContains
  \/ LifeNextTimeIcal
  \/ LifeMaxHosts
  \/ LifeSeverity
  \/ LifeRegexp

Spec == Init /\ [][Next]_vars

----------------------------------------------------------------------------
(* Properties. *)

IsSeverityCall ==
  fn = "sql_severity_matches_ov" /\ ~args[1].null /\ ~args[2].null

(* C1, as stated: for non-null value and threshold with threshold <= 0 the *)
(* predicate is true exactly when value = threshold.                       *)
C1_Original ==
  (IsSeverityCall /\ args[2].v <= 0)
    => (ret.v = 1 <=> args[1].v = args[2].v)

(* C1, amended: for non-null value and threshold with threshold <= 0 the   *)
(* predicate is true exactly when value = threshold or value > 0; so       *)
(* matchesOverride (v, 0) is true iff v >= 0 and matchesOverride (5, -1)   *)
(* is true.                                                                *)
C1_Amended ==
  (IsSeverityCall /\ args[2].v <= 0)
    => /\ ~ret.null
       /\ ret.v \in {0, 1}
       /\ ret.v = 1 <=> (args[1].v = args[2].v \/ args[1].v > 0)
       /\ args[2].v = 0 => (ret.v = 1 <=> args[1].v >= 0)

C1_Witness ==
  IsSeverityCall /\ args[1].v = 5 /\ args[2].v = 0 - 1 /\ ret.v = 1

(* C2: for non-null value and threshold with threshold > 0 the predicate   *)
(* is true exactly when value >= threshold, also for value <= 0.           *)
C2_GreaterOrEqual ==
  (IsSeverityCall /\ args[2].v > 0)
    => /\ ~ret.null
       /\ ret.v \in {0, 1}
       /\ ret.v = 1 <=> args[1].v >= args[2].v

C2_Witness ==
  IsSeverityCall /\ args[2].v > 0 /\ args[1].v <= 0 /\ ret.v = 0

(* C3: a null value gives false (also with a null threshold), a non-null   *)
(* value with a null threshold gives true, and in neither case is a number *)
(* fetched for a comparison.                                               *)
C3_NullHandling ==
  fn = "sql_severity_matches_ov"
    => /\ args[1].null => (ret = Datum(FALSE, 0) /\ getargs = {})
       /\ (~args[1].null /\ args[2].null)
            => (ret = Datum(FALSE, 1) /\ getargs = {})

C3_Witness ==
  /\ fn = "sql_severity_matches_ov"
  /\ args[1].null /\ args[2].null
  /\ ret = Datum(FALSE, 0)

(* The texts that are an integer in decimal, and their value. *)
UnsignedPart(t) == IF t # <<>> /\ t[1] = "-" THEN Tail(t) ELSE t

IsNumericText(t) ==
  /\ UnsignedPart(t) # <<>>
  /\ \A i \in 1..Len(UnsignedPart(t)) : IsDigit(UnsignedPart(t)[i])

RECURSIVE DecimalOf(_)
DecimalOf(d) ==
  IF d = <<>> THEN 0
  ELSE DecimalOf(SubSeq(d, 1, Len(d) - 1)) * 10 + DigitVal(d[Len(d)])

ConfiguredInteger(t) ==
  IF t # <<>> /\ t[1] = "-" THEN 0 - DecimalOf(Tail(t)) ELSE DecimalOf(t)

IsCoreHostsCall(c) == c.f \in {"hosts_str_contains", "manage_count_hosts_max"}

(* C4: the cap handed to the containment and count operations is 4095     *)
(* when the configured max_hosts is absent or not a numeric text, and the  *)
(* configured integer otherwise.                                           *)
C4_CapDefault ==
  \A i \in 1..Len(calls) :
    IsCoreHostsCall(calls[i])
      => calls[i].a[3] =
           IF ~meta.row \/ meta.null \/ ~IsNumericText(meta.value)
           THEN 4095
           ELSE ConfiguredInteger(meta.value)

(* C5: the cap handed to the containment and count operations is a        *)
(* positive integer, whatever the configuration store holds.               *)
C5_CapPositive ==
  \A i \in 1..Len(calls) :
    IsCoreHostsCall(calls[i]) => calls[i].a[3] > 0

(* C6: the host count of a null expression is 0 whatever exclude is, and   *)
(* for a non-null expression a null exclude reaches the core as the empty  *)
(* string and gives the count of the empty exclude under the same cap.     *)
C6_NullExclude ==
  fn = "sql_max_hosts"
    => /\ args[1].null => (ret = Datum(FALSE, 0) /\ calls = <<>>)
       /\ (~args[1].null /\ args[2].null)
            => /\ Len(calls) = 1
               /\ calls[1].f = "manage_count_hosts_max"
               /\ calls[1].a[1] = args[1].v
               /\ calls[1].a[2] = <<>>
               /\ ret = Datum(FALSE,
                              manage_count_hosts_max(args[1].v, <<>>,
                                                     calls[1].a[3]))

C6_Witness ==
  /\ fn = "sql_max_hosts"
  /\ ~args[1].null /\ args[2].null
  /\ ret.v >= 1

(* C7: host containment is false when the expression or the candidate is   *)
(* null, and otherwise true exactly when hosts_str_contains (expression,   *)
(* candidate, cap) reports a match.                                        *)
C7_Containment ==
  fn = "sql_hosts_contains"
    => IF args[1].null \/ args[2].null
       THEN ret = Datum(FALSE, 0) /\ calls = <<>>
       ELSE /\ Len(calls) = 1
            /\ calls[1].f = "hosts_str_contains"
            /\ calls[1].a[1] = args[1].v
            /\ calls[1].a[2] = args[2].v
            /\ ~ret.null
            /\ ret.v \in {0, 1}
            /\ ret.v = 1 <=> hosts_str_contains(args[1].v, args[2].v,
                                                calls[1].a[3])

C7_Witness ==
  /\ fn = "sql_hosts_contains"
  /\ ~args[1].null /\ ~args[2].null
  /\ Len(args[1].v) > Len(args[2].v)
  /\ ret.v = 1

(* C8: when periodsOffset is absent or null the scheduler is invoked with  *)
(* periodsOffset 0.                                                        *)
C8_OffsetDefault ==
  (fn = "sql_next_time_ical" /\ calls # <<>> /\ (nargs < 3 \/ args[3].null))
    => calls[1].a[3] = 0

(* C9: when recurrenceText is absent or null the result is SQL NULL, the   *)
(* scheduler is not invoked and no argument is fetched.                    *)
C9_NullRecurrence ==
  (fn = "sql_next_time_ical" /\ (nargs < 1 \/ args[1].null))
    => /\ ret.null
       /\ calls = <<>>
       /\ getargs = {}

C9_Witness ==
  /\ fn = "sql_next_time_ical"
  /\ nargs = 3
  /\ args[1].null /\ ~args[2].null /\ ~args[3].null
  /\ ret.null

(* Each buffer the events allocate is freed exactly once, afterwards, and  *)
(* each SPI_connect is followed by an SPI_finish.                          *)
FreedOnce(evs) ==
  \A i \in 1..Len(evs) :
    /\ evs[i][1] = "palloc"
         => Cardinality({j \in 1..Len(evs) : evs[j] = Pfree(evs[i][2])}) = 1
            /\ \E j \in (i + 1)..Len(evs) : evs[j] = Pfree(evs[i][2])
    /\ evs[i][1] = "SPI_connect"
         => \E j \in (i + 1)..Len(evs) : evs[j][1] = "SPI_finish"

====
